---- MODULE Spec2Model ----
(***************************************************************************)
(* Model of the job-board client: the job list controller of              *)
(* FindJobsScreen (app/(jobseeker)/_layout.tsx), which takes the filters  *)
(* its modal (app/components/job-filters-modal.tsx) applies as an input,  *)
(* and the session store (AuthProvider) with the HTTP client's            *)
(* interceptors (app/config/api.ts).                                      *)
(*                                                                         *)
(* React state is modelled in two layers: the hook state (the variables   *)
(* named as in the source, holding the value after all queued updates)    *)
(* and `view`, the snapshot of the last committed render, which is what   *)
(* every event handler and every closure created by that render reads.    *)
(* The two differ between a handler that sets filters and the render      *)
(* whose effect runs loadJobs for them.                                   *)
(***************************************************************************)
EXTENDS Integers, Sequences, FiniteSets, TLC

\* ------------------------------------------------------------------------
\* Bounds of the model
\* ------------------------------------------------------------------------
\* number of jobs the backend holds at start
NumJobs == 25
\* number of jobs the backend may receive while the screen is open
MaxPosted == 1
\* number of user events (a touch, a text edit) in one behaviour
MaxEvents == 3
\* number of Alert.alert('Error', ...) calls of a screen in one behaviour
MaxAlerts == 2
\* number of jobs of the employer, and of applications of the job seeker
NumItems == 2
\* number of job cards of the list the user taps the bookmark of
MaxCards == 2
\* number of operations of the session store and HTTP client in progress
MaxTasks == 2
\* number of tokens the backend issues in one behaviour
MaxLogins == 2
\* number of 401 responses the backend sends in one behaviour
MaxUnauthorized == 2
\* number of days a date picker of a form offers, today being the last
MaxDate == 2

\* ------------------------------------------------------------------------
\* Values
\* ------------------------------------------------------------------------
Undefined == "undefined"
\* an absent number (page or limit of a query that does not supply it)
NoNumber == 0
\* initial value of filters.limit (useState) and the value of every reset
DefaultLimit == 10

SearchTerms == {"", "dev"}
Locations == {"NY"}
JobTypes == {"FULL_TIME"}

DefaultFilters ==
  [page |-> 1, limit |-> DefaultLimit, search |-> Undefined,
   location |-> Undefined, employmentType |-> Undefined]

\* the drafts the filter modal hands to onApply
FilterInputs ==
  {[DefaultFilters EXCEPT !.page = p, !.location = l, !.employmentType = t] :
     p \in 1..2, l \in Locations \cup {Undefined},
     t \in JobTypes \cup {Undefined}}

\* a JobFilters value that supplies no field
EmptyQuery ==
  [page |-> NoNumber, limit |-> NoNumber, search |-> Undefined,
   location |-> Undefined, employmentType |-> Undefined]

\* JobFilters values that supply only some of the fields
QueryInputs ==
  {[EmptyQuery EXCEPT !.location = l] : l \in Locations \cup {Undefined}}

Min(a, b) == IF a < b THEN a ELSE b

VARIABLES
  \* FindJobsScreen hook state
  jobs, isLoading, isRefreshing, isLoadingMore, searchQuery, showFilters,
  filters, pagination,
  \* the state captured by the last committed render
  view,
  \* TRUE when `filters` was set since the useEffect([filters]) last ran
  filtersChanged,
  \* getAllJobs requests awaiting their response, in dispatch order
  inflight,
  \* backend: ids of the posted jobs, newest first
  serverJobs,
  \* number of Alert.alert('Error', ...) calls
  alerts,
  \* number of user events so far
  events,
  \* AsyncStorage: the items authToken, userRole and userData
  storage,
  \* AuthProvider hook state
  user, userRole, token, authIsLoading,
  \* the asynchronous operations of the session store and of the HTTP
  \* client that are suspended at an await
  tasks,
  \* backend: number of tokens issued by /auth/login and /auth/register
  issued,
  \* number of times the response interceptor ran its 401 branch
  unauthorized,
  \* backend: ids of the jobs the signed-in job seeker has saved
  serverSaved,
  \* saveJob and unsaveJob calls awaiting their response, in dispatch order
  saveCalls,
  \* JobDetailsScreen hook state
  job,
  \* JobFiltersModal hook state: the `filters` the modal edits
  modalFilters,
  \* the item screen that is mounted: MyJobsScreen, MyApplicationsScreen or
  \* ProfileScreen
  screen,
  \* its collection: jobs, applications, or the skills, experiences and
  \* educations of profile
  items,
  \* its isLoading and refreshing hook state
  itemsLoading, refreshing,
  \* the confirmation Alert on screen, if any
  dialog,
  \* the gateway calls of the item screen awaiting their response
  pending,
  \* backend: the collection the screen's load call returns
  server,
  \* number of Alert.alert('Error', ...) calls of the item screen
  errorAlerts,
  \* number of touches handled by the item screen
  taps,
  \* JobDetailsScreen hook state of the apply modal
  isApplying, showApplyModal,
  \* JobDetailsScreen: the id route parameter and the isLoading hook state
  routeId, detailsLoading,
  \* the form that is open (a modal or a screen), its formData and its
  \* isLoading / isSaving hook state
  formKind, formData, formLoading,
  \* the form is on screen: not closed by onClose or router.back
  formVisible,
  \* the data of the save call awaiting its response, if any
  formCall,
  \* the message of the last Alert.alert the form raised
  formAlert

listVars == <<jobs, isLoading, isRefreshing, isLoadingMore, searchQuery,
              showFilters, filters, pagination, view, filtersChanged,
              inflight, serverJobs, alerts, events>>

authVars == <<storage, user, userRole, token, authIsLoading, tasks, issued,
              unauthorized>>

saveVars == <<serverSaved, saveCalls, job>>

\* what the list controller leaves alone, and what the session store does
itemVars == <<screen, items, itemsLoading, refreshing, dialog, pending,
              server, errorAlerts, taps>>

formVars == <<formKind, formData, formLoading, formVisible, formCall,
              formAlert>>

detailsVars == <<isApplying, showApplyModal, routeId, detailsLoading>>

nonListVars == <<authVars, saveVars, itemVars, formVars, detailsVars>>
nonAuthVars == <<listVars, saveVars, modalFilters, itemVars, formVars, detailsVars>>
nonItemVars ==
  <<listVars, authVars, saveVars, modalFilters, detailsVars, formVars>>
nonFormVars ==
  <<listVars, authVars, saveVars, modalFilters, itemVars, detailsVars>>

vars == <<listVars, authVars, saveVars, modalFilters, itemVars, formVars, detailsVars>>

\* ------------------------------------------------------------------------
\* Backend: GET /jobs
\* ------------------------------------------------------------------------
JobRecord(id) == [id |-> id, isSaved |-> id \in serverSaved]

\* attributes of a job, fixed by its id
JobSearchHit(id, term) == term = "dev" => id % 3 # 0
JobLocation(id) == IF id % 2 = 0 THEN "NY" ELSE "SF"
JobType(id) == IF id % 5 = 0 THEN "PART_TIME" ELSE "FULL_TIME"

JobMatches(id, f) ==
  /\ f.search \in {Undefined, ""} \/ JobSearchHit(id, f.search)
  /\ f.location \in {Undefined, ""} \/ JobLocation(id) = f.location
  /\ f.employmentType = Undefined \/ JobType(id) = f.employmentType

Matching(catalogue, f) == SelectSeq(catalogue, LAMBDA id : JobMatches(id, f))

\* the page a request for f gets from a backend holding `catalogue`; a
\* request without a limit gets pages of the default size
getAllJobs(catalogue, f) ==
  LET m == Matching(catalogue, f)
      limit == IF f.limit = NoNumber THEN DefaultLimit ELSE f.limit
      lo == (f.page - 1) * limit + 1
      hi == Min(f.page * limit, Len(m))
      ids == SubSeq(m, lo, hi)
  IN [jobs |-> [i \in 1..Len(ids) |-> JobRecord(ids[i])],
      pagination |-> [total |-> Len(m), page |-> f.page,
                      totalPages |-> (Len(m) + limit - 1) \div limit]]

\* ------------------------------------------------------------------------
\* FindJobsScreen
\* ------------------------------------------------------------------------
Snapshot ==
  [jobs |-> jobs, isLoading |-> isLoading, isRefreshing |-> isRefreshing,
   isLoadingMore |-> isLoadingMore, searchQuery |-> searchQuery,
   showFilters |-> showFilters, filters |-> filters,
   pagination |-> pagination]

getActiveFiltersCount(f) ==
  (IF f.location \notin {Undefined, ""} THEN 1 ELSE 0)
  + (IF f.employmentType # Undefined THEN 1 ELSE 0)

\* the list branch of the render (header, list, modal) is on screen
ListShown == ~view.isLoading

\* synchronous part of loadJobs, up to the await of the request
loadJobs(isRefresh, f) ==
  /\ isRefreshing' = (isRefresh \/ isRefreshing)
  /\ isLoading' = ((~isRefresh /\ f.page = 1) \/ isLoading)
  /\ isLoadingMore' = ((~isRefresh /\ f.page # 1) \/ isLoadingMore)
  /\ inflight' = Append(inflight, [filters |-> f, isRefresh |-> isRefresh])

RemoveAt(s, i) == SubSeq(s, 1, i - 1) \o SubSeq(s, i + 1, Len(s))

\* the flags after the finally block of loadJobs
loadJobsFinally ==
  /\ isLoading' = FALSE
  /\ isRefreshing' = FALSE
  /\ isLoadingMore' = FALSE

\* a modal that stays mounted, keeping its draft, across the loading view
mountModalKeepsDraft == modalFilters' = modalFilters

\* JobFiltersModal is rendered in the list branch only: it is unmounted when
\* the loading view is rendered, and mounted with initialFilters = filters
\* when the list branch follows the loading view
mountModal ==
  modalFilters' = IF view'.isLoading THEN DefaultFilters
                  ELSE IF view.isLoading THEN view'.filters
                  ELSE modalFilters

\* the render that follows the state updates of a settled request: it is
\* committed before anything else runs, unless the render for a new value
\* of filters is still to come
commit ==
  /\ view' = IF filtersChanged THEN view ELSE Snapshot'
  /\ mountModal

\* loadJobsResolved that replaces the list whatever the page
loadJobsResolvedReplaces(i) ==
  /\ i \in 1..Len(inflight)
  /\ LET req == inflight[i]
         res == getAllJobs(serverJobs, req.filters)
     IN /\ jobs' = res.jobs
        /\ pagination' = res.pagination
  /\ loadJobsFinally
  /\ inflight' = RemoveAt(inflight, i)
  /\ UNCHANGED <<searchQuery, showFilters, filters, filtersChanged,
                 serverJobs, alerts>>
  /\ UNCHANGED events
  /\ commit
  /\ UNCHANGED nonListVars

\* loadJobs after the await: the response of request i carries jobs
loadJobsResolved(i) ==
  /\ i \in 1..Len(inflight)
  /\ LET req == inflight[i]
         res == getAllJobs(serverJobs, req.filters)
     IN /\ jobs' = IF req.filters.page = 1 \/ req.isRefresh
                   THEN res.jobs
                   ELSE jobs \o res.jobs
        /\ pagination' = res.pagination
  /\ loadJobsFinally
  /\ inflight' = RemoveAt(inflight, i)
  /\ UNCHANGED <<searchQuery, showFilters, filters, filtersChanged,
                 serverJobs, alerts>>
  /\ UNCHANGED events
  /\ commit
  /\ UNCHANGED nonListVars

\* loadJobsRejected with a catch block that empties the list
loadJobsRejectedBlanks(i) ==
  /\ i \in 1..Len(inflight)
  /\ alerts < MaxAlerts
  /\ alerts' = alerts + 1
  /\ jobs' = <<>>
  /\ loadJobsFinally
  /\ inflight' = RemoveAt(inflight, i)
  /\ UNCHANGED <<pagination, searchQuery, showFilters, filters,
                 filtersChanged, serverJobs>>
  /\ UNCHANGED events
  /\ commit
  /\ UNCHANGED nonListVars

\* loadJobs after the await: the request i is rejected
loadJobsRejected(i) ==
  /\ i \in 1..Len(inflight)
  /\ alerts < MaxAlerts
  /\ alerts' = alerts + 1
  /\ loadJobsFinally
  /\ inflight' = RemoveAt(inflight, i)
  /\ UNCHANGED <<jobs, pagination, searchQuery, showFilters, filters,
                 filtersChanged, serverJobs>>
  /\ UNCHANGED events
  /\ commit
  /\ UNCHANGED nonListVars

\* React renders the new value of filters, the effect on [filters] runs
\* loadJobs(), and the render that follows is committed: the handlers now
\* close over the new state
Render ==
  /\ filtersChanged
  /\ loadJobs(FALSE, filters)
  /\ filtersChanged' = FALSE
  /\ UNCHANGED <<jobs, searchQuery, showFilters, filters, pagination,
                 serverJobs, alerts, events>>
  /\ view' = Snapshot'
  /\ mountModal
  /\ UNCHANGED nonListVars

\* the user acts on the list: every handler below starts with it
userEvent ==
  /\ ListShown
  /\ events < MaxEvents
  /\ events' = events + 1

setFilters(f) ==
  /\ filters' = f
  /\ filtersChanged' = TRUE

setSearchQuery(text) ==
  /\ userEvent
  /\ text \in SearchTerms
  /\ searchQuery' = text
  /\ view' = [view EXCEPT !.searchQuery = text]
  /\ UNCHANGED <<jobs, isLoading, isRefreshing, isLoadingMore, showFilters,
                 filters, pagination, filtersChanged,
                 inflight, serverJobs, alerts>>
  /\ UNCHANGED <<nonListVars, modalFilters>>

\* handleSearch without the reset of the page
handleSearchKeepsPage ==
  /\ userEvent
  /\ setFilters([filters EXCEPT !.search = view.searchQuery])
  /\ UNCHANGED <<jobs, isLoading, isRefreshing, isLoadingMore, searchQuery,
                 showFilters, pagination, view, inflight,
                 serverJobs, alerts>>
  /\ UNCHANGED <<nonListVars, modalFilters>>

handleSearch ==
  /\ userEvent
  /\ setFilters([filters EXCEPT !.search = view.searchQuery, !.page = 1])
  /\ UNCHANGED <<jobs, isLoading, isRefreshing, isLoadingMore, searchQuery,
                 showFilters, pagination, view, inflight,
                 serverJobs, alerts>>
  /\ UNCHANGED <<nonListVars, modalFilters>>

handleRefresh ==
  /\ userEvent
  /\ setFilters([filters EXCEPT !.page = 1])
  /\ loadJobs(TRUE, view.filters)
  /\ UNCHANGED <<jobs, searchQuery, showFilters, pagination, view,
                 serverJobs, alerts>>
  /\ UNCHANGED <<nonListVars, modalFilters>>

handleLoadMore ==
  /\ userEvent
  /\ ~view.isLoadingMore
  /\ view.pagination.page < view.pagination.totalPages
  /\ setFilters([filters EXCEPT !.page = filters.page + 1])
  /\ UNCHANGED <<jobs, isLoading, isRefreshing, isLoadingMore, searchQuery,
                 showFilters, pagination, view, inflight,
                 serverJobs, alerts>>
  /\ UNCHANGED <<nonListVars, modalFilters>>

handleApplyFilters(newFilters) ==
  /\ userEvent
  /\ view.showFilters
  /\ setFilters([newFilters EXCEPT !.page = 1])
  /\ showFilters' = FALSE
  /\ UNCHANGED <<jobs, isLoading, isRefreshing, isLoadingMore, searchQuery,
                 pagination, view, inflight, serverJobs,
                 alerts>>
  /\ UNCHANGED <<nonListVars, modalFilters>>

handleClearFilters ==
  /\ userEvent
  /\ \/ getActiveFiltersCount(view.filters) > 0
     \/ /\ view.jobs = <<>>
        /\ view.searchQuery # ""
  /\ searchQuery' = ""
  /\ setFilters([page |-> 1, limit |-> DefaultLimit, search |-> Undefined,
                 location |-> Undefined, employmentType |-> Undefined])
  /\ UNCHANGED <<jobs, isLoading, isRefreshing, isLoadingMore, showFilters,
                 pagination, view, inflight, serverJobs,
                 alerts>>
  /\ UNCHANGED <<nonListVars, modalFilters>>

ChipFields == {"location", "employmentType"}

\* the close button of an active-filter chip
removeFilterChip(field) ==
  /\ userEvent
  /\ field \in ChipFields
  /\ getActiveFiltersCount(view.filters) > 0
  /\ view.filters[field] \notin {Undefined, ""}
  /\ setFilters([view.filters EXCEPT ![field] = Undefined, !.page = 1])
  /\ UNCHANGED <<jobs, isLoading, isRefreshing, isLoadingMore, searchQuery,
                 showFilters, pagination, view, inflight,
                 serverJobs, alerts>>
  /\ UNCHANGED <<nonListVars, modalFilters>>

setShowFilters(b) ==
  /\ userEvent
  /\ b \in BOOLEAN
  /\ b = ~view.showFilters
  /\ showFilters' = b
  /\ view' = [view EXCEPT !.showFilters = b]
  /\ UNCHANGED <<jobs, isLoading, isRefreshing, isLoadingMore, searchQuery,
                 filters, pagination, filtersChanged,
                 inflight, serverJobs, alerts>>
  /\ UNCHANGED <<nonListVars, modalFilters>>

\* ------------------------------------------------------------------------
\* JobFiltersModal
\* ------------------------------------------------------------------------
\* <Modal visible={visible}> inside the list branch of FindJobsScreen
ModalShown == ListShown /\ view.showFilters

\* a handler of the modal: it touches the modal's own state only
modalEvent ==
  /\ ModalShown
  /\ events < MaxEvents
  /\ events' = events + 1
  /\ UNCHANGED <<jobs, isLoading, isRefreshing, isLoadingMore, searchQuery,
                 showFilters, filters, pagination, view, filtersChanged,
                 inflight, serverJobs, alerts>>
  /\ UNCHANGED nonListVars

\* onChangeText of the location input, and its clear button
JobFiltersModal_setLocation(text) ==
  /\ modalEvent
  /\ modalFilters' = [modalFilters EXCEPT !.location = text]

JobFiltersModal_toggleJobType(type) ==
  /\ modalEvent
  /\ modalFilters' =
       [modalFilters EXCEPT
          !.employmentType =
             IF modalFilters.employmentType = type THEN Undefined ELSE type]

JobFiltersModal_handleReset ==
  /\ modalEvent
  /\ modalFilters' = DefaultFilters

\* onApply(filters) with onApply = handleApplyFilters
JobFiltersModal_handleApply == handleApplyFilters(modalFilters)

\* ------------------------------------------------------------------------
\* Item screens: MyJobsScreen, MyApplicationsScreen, ProfileScreen
\* ------------------------------------------------------------------------
NoDialog == [api |-> "none", section |-> "none", id |-> 0]

Screens == {"MyJobs", "MyApplications", "Profile"}

\* the call each screen loads its collection with
LoadApi ==
  [MyJobs |-> "getMyJobs", MyApplications |-> "getMyApplications",
   Profile |-> "getProfile"]

\* the destructive call behind each confirmation, and the section of the
\* screen's collection it acts on
DestructiveApis ==
  {"deleteJob", "withdrawApplication", "removeSkill", "deleteExperience",
   "deleteEducation"}

\* what the backend holds when the screen is opened
ServerItems(s) ==
  CASE s = "MyJobs" ->
         [i \in 1..NumItems |->
            [section |-> "jobs", id |-> i,
             status |-> IF i % 2 = 1 THEN "active" ELSE "inactive"]]
    [] s = "MyApplications" ->
         [i \in 1..NumItems |->
            [section |-> "applications", id |-> i,
             status |-> IF i % 2 = 1 THEN "PENDING" ELSE "REVIEWING"]]
    [] s = "Profile" ->
         <<[section |-> "skills", id |-> 1, status |-> "none"],
           [section |-> "experiences", id |-> 1, status |-> "none"],
           [section |-> "educations", id |-> 1, status |-> "none"]>>

\* the item of a section with the given id is in the list
Holds(list, section, id) ==
  \E k \in 1..Len(list) : list[k].section = section /\ list[k].id = id

Without(list, section, id) ==
  SelectSeq(list, LAMBDA it : ~(it.section = section /\ it.id = id))

ItemOf(list, section, id) ==
  list[CHOOSE k \in 1..Len(list) :
         list[k].section = section /\ list[k].id = id]

\* the list branch of the render is on screen and no Alert covers it
ItemsShown == screen \in Screens /\ ~itemsLoading /\ dialog = NoDialog

tap ==
  /\ taps < MaxEvents
  /\ taps' = taps + 1

call(api, section, id, arg) ==
  pending' = Append(pending, [api |-> api, section |-> section, id |-> id,
                              arg |-> arg])

\* loadJobs / loadApplications / loadProfile up to the await
load == call(LoadApi[screen], "none", 0, "none")

\* the response sets the collection; finally clears both flags
loadResolved(i) ==
  /\ pending[i].api = LoadApi[screen]
  /\ items' = server
  /\ itemsLoading' = FALSE
  /\ refreshing' = FALSE
  /\ pending' = RemoveAt(pending, i)
  /\ UNCHANGED <<screen, dialog, server, errorAlerts, taps>>
  /\ UNCHANGED nonItemVars

\* catch: Alert.alert('Error', 'Failed to load ...'); finally clears both flags
loadRejected(i) ==
  /\ pending[i].api = LoadApi[screen]
  /\ errorAlerts < MaxAlerts
  /\ errorAlerts' = errorAlerts + 1
  /\ itemsLoading' = FALSE
  /\ refreshing' = FALSE
  /\ pending' = RemoveAt(pending, i)
  /\ UNCHANGED <<screen, items, dialog, server, taps>>
  /\ UNCHANGED nonItemVars

onRefresh ==
  /\ ItemsShown
  /\ tap
  /\ refreshing' = TRUE
  /\ load
  /\ UNCHANGED <<screen, items, itemsLoading, dialog, server, errorAlerts>>
  /\ UNCHANGED nonItemVars

\* a toggleJobStatus that shows the new status before the call is answered
toggleJobStatusFlipsFirst(jobId) ==
  /\ screen = "MyJobs"
  /\ ItemsShown
  /\ Holds(items, "jobs", jobId)
  /\ tap
  /\ LET currentStatus == ItemOf(items, "jobs", jobId).status
         flipped == IF currentStatus = "active" THEN "inactive" ELSE "active"
     IN /\ call("updateJob", "jobs", jobId, flipped)
        /\ items' = [k \in 1..Len(items) |->
                       IF items[k].id = jobId
                       THEN [items[k] EXCEPT !.status = flipped]
                       ELSE items[k]]
  /\ UNCHANGED <<screen, itemsLoading, refreshing, dialog, server,
                 errorAlerts>>
  /\ UNCHANGED nonItemVars

\* MyJobsScreen.toggleJobStatus(item.id, item.isActive): isActive true and
\* false are the statuses "active" and "inactive"
toggleJobStatus(jobId) ==
  /\ screen = "MyJobs"
  /\ ItemsShown
  /\ Holds(items, "jobs", jobId)
  /\ tap
  /\ LET currentStatus == ItemOf(items, "jobs", jobId).status
     IN call("updateJob", "jobs", jobId,
             IF currentStatus = "active" THEN "inactive" ELSE "active")
  /\ UNCHANGED <<screen, items, itemsLoading, refreshing, dialog, server,
                 errorAlerts>>
  /\ UNCHANGED nonItemVars

\* the backend stored the update; Alert 'Success'; loadJobs()
updateJobResolved(i) ==
  /\ pending[i].api = "updateJob"
  /\ server' = [k \in 1..Len(server) |->
                  IF server[k].id = pending[i].id
                  THEN [server[k] EXCEPT !.status = pending[i].arg]
                  ELSE server[k]]
  /\ pending' = Append(RemoveAt(pending, i),
                       [api |-> LoadApi[screen], section |-> "none",
                        id |-> 0, arg |-> "none"])
  /\ UNCHANGED <<screen, items, itemsLoading, refreshing, dialog,
                 errorAlerts, taps>>
  /\ UNCHANGED nonItemVars

\* catch: Alert.alert('Error', 'Failed to update job status')
updateJobRejected(i) ==
  /\ pending[i].api = "updateJob"
  /\ errorAlerts < MaxAlerts
  /\ errorAlerts' = errorAlerts + 1
  /\ pending' = RemoveAt(pending, i)
  /\ UNCHANGED <<screen, items, itemsLoading, refreshing, dialog, server,
                 taps>>
  /\ UNCHANGED nonItemVars

\* Alert.alert(title, question, [Cancel, destructive button])
confirm(api, section, id) ==
  /\ ItemsShown
  /\ Holds(items, section, id)
  /\ tap
  /\ dialog' = [api |-> api, section |-> section, id |-> id]
  /\ UNCHANGED <<screen, items, itemsLoading, refreshing, pending, server,
                 errorAlerts>>
  /\ UNCHANGED nonItemVars

deleteJob(jobId) ==
  /\ screen = "MyJobs"
  /\ confirm("deleteJob", "jobs", jobId)

\* a handleWithdrawApplication that calls the gateway without asking
handleWithdrawApplicationNoConfirm(applicationId) ==
  /\ screen = "MyApplications"
  /\ ItemsShown
  /\ Holds(items, "applications", applicationId)
  /\ ItemOf(items, "applications", applicationId).status
       \in {"PENDING", "REVIEWING"}
  /\ tap
  /\ call("withdrawApplication", "applications", applicationId, "none")
  /\ UNCHANGED <<screen, items, itemsLoading, refreshing, dialog, server,
                 errorAlerts>>
  /\ UNCHANGED nonItemVars

\* the withdraw button is rendered for PENDING and REVIEWING applications
handleWithdrawApplication(applicationId) ==
  /\ screen = "MyApplications"
  /\ Holds(items, "applications", applicationId)
  /\ ItemOf(items, "applications", applicationId).status
       \in {"PENDING", "REVIEWING"}
  /\ confirm("withdrawApplication", "applications", applicationId)

handleRemoveSkill(skillId) ==
  /\ screen = "Profile"
  /\ confirm("removeSkill", "skills", skillId)

handleDeleteExperience(experienceId) ==
  /\ screen = "Profile"
  /\ confirm("deleteExperience", "experiences", experienceId)

handleDeleteEducation(educationId) ==
  /\ screen = "Profile"
  /\ confirm("deleteEducation", "educations", educationId)

\* the Cancel button has no onPress
pressCancel ==
  /\ dialog # NoDialog
  /\ tap
  /\ dialog' = NoDialog
  /\ UNCHANGED <<screen, items, itemsLoading, refreshing, pending, server,
                 errorAlerts>>
  /\ UNCHANGED nonItemVars

\* onPress of the destructive button, up to the await
pressDestructive ==
  /\ dialog # NoDialog
  /\ tap
  /\ call(dialog.api, dialog.section, dialog.id, "none")
  /\ dialog' = NoDialog
  /\ UNCHANGED <<screen, items, itemsLoading, refreshing, server,
                 errorAlerts>>
  /\ UNCHANGED nonItemVars

\* the backend dropped the item; Alert 'Success'; the screen's load call
destructiveResolved(i) ==
  /\ pending[i].api \in DestructiveApis
  /\ server' = Without(server, pending[i].section, pending[i].id)
  /\ pending' = Append(RemoveAt(pending, i),
                       [api |-> LoadApi[screen], section |-> "none",
                        id |-> 0, arg |-> "none"])
  /\ UNCHANGED <<screen, items, itemsLoading, refreshing, dialog,
                 errorAlerts, taps>>
  /\ UNCHANGED nonItemVars

\* a catch block that also takes the item out of the list
destructiveRejectedRemoves(i) ==
  /\ pending[i].api \in DestructiveApis
  /\ errorAlerts < MaxAlerts
  /\ errorAlerts' = errorAlerts + 1
  /\ items' = Without(items, pending[i].section, pending[i].id)
  /\ pending' = RemoveAt(pending, i)
  /\ UNCHANGED <<screen, itemsLoading, refreshing, dialog, server, taps>>
  /\ UNCHANGED nonItemVars

\* catch: Alert.alert('Error', ...)
destructiveRejected(i) ==
  /\ pending[i].api \in DestructiveApis
  /\ errorAlerts < MaxAlerts
  /\ errorAlerts' = errorAlerts + 1
  /\ pending' = RemoveAt(pending, i)
  /\ UNCHANGED <<screen, items, itemsLoading, refreshing, dialog, server,
                 taps>>
  /\ UNCHANGED nonItemVars

\* ------------------------------------------------------------------------
\* Saving a job: FindJobsScreen.handleSaveJob, JobDetailsScreen
\* ------------------------------------------------------------------------
\* JobDetailsScreen before getJobById has answered: job is null
NoJob == [id |-> 0, isSaved |-> FALSE, hasApplied |-> FALSE]

\* the job the details screen was opened for
DetailsId == NumJobs

\* useLocalSearchParams gave no id
NoId == 0

\* the job cards within the user's reach
Reachable(list) == {list[k].id : k \in 1..Min(Len(list), MaxCards)}

\* handleSaveJob up to the await: the call is chosen from the isSaved flag
\* of the render the handler closes over
handleSaveJob(jobId) ==
  /\ userEvent
  /\ jobId \in Reachable(view.jobs)
  /\ LET j == CHOOSE x \in {view.jobs[k] : k \in 1..Len(view.jobs)} :
                  x.id = jobId
     IN saveCalls' = Append(saveCalls,
                       [screen |-> "FindJobsScreen", jobId |-> jobId,
                        api |-> IF j.isSaved THEN "unsaveJob" ELSE "saveJob",
                        job |-> NoJob])
  /\ UNCHANGED <<jobs, isLoading, isRefreshing, isLoadingMore, searchQuery,
                 showFilters, filters, pagination, view, filtersChanged,
                 inflight, serverJobs, alerts>>
  /\ UNCHANGED <<authVars, itemVars, formVars, detailsVars, serverSaved, job, modalFilters>>

\* POST or DELETE /job-seekers/saved-jobs/:id succeeds
savedJobs(api, jobId) ==
  IF api = "saveJob" THEN serverSaved \cup {jobId} ELSE serverSaved \ {jobId}

\* handleSaveJob after the await: the success alert, then the flag of the
\* job is flipped in the list
handleSaveJobResolved(i) ==
  /\ i \in 1..Len(saveCalls)
  /\ saveCalls[i].screen = "FindJobsScreen"
  /\ serverSaved' = savedJobs(saveCalls[i].api, saveCalls[i].jobId)
  /\ jobs' = [k \in 1..Len(jobs) |->
                IF jobs[k].id = saveCalls[i].jobId
                THEN [jobs[k] EXCEPT !.isSaved = ~jobs[k].isSaved]
                ELSE jobs[k]]
  /\ saveCalls' = RemoveAt(saveCalls, i)
  /\ UNCHANGED <<isLoading, isRefreshing, isLoadingMore, searchQuery,
                 showFilters, filters, pagination, filtersChanged,
                 inflight, serverJobs, alerts, events>>
  /\ commit
  /\ UNCHANGED <<authVars, itemVars, formVars, detailsVars, job>>

\* handleSaveJobRejected with a catch block that flips the flag of the job
handleSaveJobRejectedFlips(i) ==
  /\ i \in 1..Len(saveCalls)
  /\ saveCalls[i].screen = "FindJobsScreen"
  /\ alerts < MaxAlerts
  /\ alerts' = alerts + 1
  /\ jobs' = [k \in 1..Len(jobs) |->
                IF jobs[k].id = saveCalls[i].jobId
                THEN [jobs[k] EXCEPT !.isSaved = ~jobs[k].isSaved]
                ELSE jobs[k]]
  /\ saveCalls' = RemoveAt(saveCalls, i)
  /\ UNCHANGED <<isLoading, isRefreshing, isLoadingMore, searchQuery,
                 showFilters, filters, pagination, view, filtersChanged,
                 inflight, serverJobs, events>>
  /\ UNCHANGED <<authVars, itemVars, formVars, detailsVars, serverSaved, job, modalFilters>>

\* handleSaveJob, catch block
handleSaveJobRejected(i) ==
  /\ i \in 1..Len(saveCalls)
  /\ saveCalls[i].screen = "FindJobsScreen"
  /\ alerts < MaxAlerts
  /\ alerts' = alerts + 1
  /\ saveCalls' = RemoveAt(saveCalls, i)
  /\ UNCHANGED <<jobs, isLoading, isRefreshing, isLoadingMore, searchQuery,
                 showFilters, filters, pagination, view, filtersChanged,
                 inflight, serverJobs, events>>
  /\ UNCHANGED <<authVars, itemVars, formVars, detailsVars, serverSaved, job, modalFilters>>

\* JobDetailsScreen.loadJobDetails after the await: setJob(response.data.job)
loadJobDetailsResolved ==
  /\ job = NoJob
  /\ routeId # NoId
  /\ detailsLoading
  /\ job' = [id |-> routeId, isSaved |-> routeId \in serverSaved,
             hasApplied |-> FALSE]
  /\ detailsLoading' = FALSE
  /\ UNCHANGED <<listVars, modalFilters, itemVars, formVars, authVars, serverSaved,
                 saveCalls, isApplying, showApplyModal, routeId>>

\* loadJobDetails, catch and finally blocks: the Error alert, router.back()
loadJobDetailsRejected ==
  /\ job = NoJob
  /\ routeId # NoId
  /\ detailsLoading
  /\ alerts < MaxAlerts
  /\ alerts' = alerts + 1
  /\ detailsLoading' = FALSE
  /\ UNCHANGED <<jobs, isLoading, isRefreshing, isLoadingMore, searchQuery,
                 showFilters, filters, pagination, view, filtersChanged,
                 inflight, serverJobs, events>>
  /\ UNCHANGED <<modalFilters, itemVars, formVars, authVars, saveVars, isApplying,
                 showApplyModal, routeId>>

\* JobDetailsScreen.handleSaveJob up to the await
JobDetailsScreen_handleSaveJob ==
  /\ job # NoJob
  /\ ~showApplyModal
  /\ events < MaxEvents
  /\ events' = events + 1
  /\ saveCalls' = Append(saveCalls,
                    [screen |-> "JobDetailsScreen", jobId |-> job.id,
                     api |-> IF job.isSaved THEN "unsaveJob" ELSE "saveJob",
                     job |-> job])
  /\ UNCHANGED <<jobs, isLoading, isRefreshing, isLoadingMore, searchQuery,
                 showFilters, filters, pagination, view, filtersChanged,
                 inflight, serverJobs, alerts>>
  /\ UNCHANGED <<authVars, itemVars, formVars, detailsVars, serverSaved, job, modalFilters>>

\* JobDetailsScreen.handleSaveJob after the await: setJob({...job, isSaved})
\* with the job of the render the handler closed over
JobDetailsScreen_handleSaveJobResolved(i) ==
  /\ i \in 1..Len(saveCalls)
  /\ saveCalls[i].screen = "JobDetailsScreen"
  /\ serverSaved' = savedJobs(saveCalls[i].api, saveCalls[i].jobId)
  /\ saveCalls[i].api \in {"saveJob", "unsaveJob"}
  /\ job' = [saveCalls[i].job EXCEPT !.isSaved = saveCalls[i].api = "saveJob"]
  /\ saveCalls' = RemoveAt(saveCalls, i)
  /\ UNCHANGED <<listVars, modalFilters, itemVars, formVars, detailsVars, authVars>>

\* JobDetailsScreen.handleSaveJob, catch block
JobDetailsScreen_handleSaveJobRejected(i) ==
  /\ i \in 1..Len(saveCalls)
  /\ saveCalls[i].screen = "JobDetailsScreen"
  /\ saveCalls[i].api \in {"saveJob", "unsaveJob"}
  /\ alerts < MaxAlerts
  /\ alerts' = alerts + 1
  /\ saveCalls' = RemoveAt(saveCalls, i)
  /\ UNCHANGED <<jobs, isLoading, isRefreshing, isLoadingMore, searchQuery,
                 showFilters, filters, pagination, view, filtersChanged,
                 inflight, serverJobs, events>>
  /\ UNCHANGED <<authVars, itemVars, formVars, detailsVars, serverSaved, job, modalFilters>>

\* the Apply Now button, rendered while job.hasApplied is false, and the
\* close and Cancel buttons of the apply modal (Cancel is disabled while
\* applying)
setShowApplyModal(b) ==
  /\ job # NoJob
  /\ IF b THEN ~showApplyModal /\ ~job.hasApplied ELSE showApplyModal
  /\ events < MaxEvents
  /\ events' = events + 1
  /\ showApplyModal' = b
  /\ UNCHANGED <<jobs, isLoading, isRefreshing, isLoadingMore, searchQuery,
                 showFilters, filters, pagination, view, filtersChanged,
                 inflight, serverJobs, alerts>>
  /\ UNCHANGED <<authVars, itemVars, formVars, saveVars, modalFilters, isApplying,
                 routeId, detailsLoading>>

\* JobDetailsScreen.handleApply up to the await; the submit button is
\* disabled while isApplying
handleApply ==
  /\ job # NoJob
  /\ showApplyModal
  /\ ~isApplying
  /\ events < MaxEvents
  /\ events' = events + 1
  /\ isApplying' = TRUE
  /\ saveCalls' = Append(saveCalls,
                    [screen |-> "JobDetailsScreen", jobId |-> job.id,
                     api |-> "submitApplication", job |-> job])
  /\ UNCHANGED <<jobs, isLoading, isRefreshing, isLoadingMore, searchQuery,
                 showFilters, filters, pagination, view, filtersChanged,
                 inflight, serverJobs, alerts>>
  /\ UNCHANGED <<authVars, itemVars, formVars, serverSaved, job, modalFilters,
                 showApplyModal, routeId, detailsLoading>>

\* handleApply after the await: setJob({...job, hasApplied: true}) with the
\* job of the render the handler closed over, then the finally block
handleApplyResolved(i) ==
  /\ i \in 1..Len(saveCalls)
  /\ saveCalls[i].api = "submitApplication"
  /\ job' = [saveCalls[i].job EXCEPT !.hasApplied = TRUE]
  /\ isApplying' = FALSE
  /\ showApplyModal' = FALSE
  /\ saveCalls' = RemoveAt(saveCalls, i)
  /\ UNCHANGED <<listVars, modalFilters, itemVars, formVars, authVars, serverSaved,
                 routeId, detailsLoading>>

\* handleApply, catch and finally blocks
handleApplyRejected(i) ==
  /\ i \in 1..Len(saveCalls)
  /\ saveCalls[i].api = "submitApplication"
  /\ alerts < MaxAlerts
  /\ alerts' = alerts + 1
  /\ isApplying' = FALSE
  /\ showApplyModal' = FALSE
  /\ saveCalls' = RemoveAt(saveCalls, i)
  /\ UNCHANGED <<jobs, isLoading, isRefreshing, isLoadingMore, searchQuery,
                 showFilters, filters, pagination, view, filtersChanged,
                 inflight, serverJobs, events>>
  /\ UNCHANGED <<authVars, itemVars, formVars, serverSaved, job, modalFilters,
                 routeId, detailsLoading>>

\* ------------------------------------------------------------------------
\* Backend activity
\* ------------------------------------------------------------------------
\* an employer posts a job: it becomes the first of the list
ServerPost ==
  /\ Len(serverJobs) < NumJobs + MaxPosted
  /\ serverJobs' = <<Len(serverJobs) + 1>> \o serverJobs
  /\ UNCHANGED <<jobs, isLoading, isRefreshing, isLoadingMore, searchQuery,
                 showFilters, filters, pagination, view, filtersChanged,
                 inflight, alerts>>
  /\ UNCHANGED events
  /\ UNCHANGED <<nonListVars, modalFilters>>

\* ------------------------------------------------------------------------
\* Session: AsyncStorage, AuthProvider, the interceptors of the HTTP client
\* ------------------------------------------------------------------------
Null == "null"

\* the accounts of the backend; "u1+" is account u1 after a profile update
Users == {"u1", "u1+", "u2"}
Accounts == {"u1", "u2"}
RoleOf(u) == IF u = "u2" THEN "EMPLOYER" ELSE "JOB_SEEKER"
Tokens == <<"T1", "T2", "T3", "T4">>

\* JSON.stringify and JSON.parse of the user object
stringify(u) == "{" \o u \o "}"
parse(text) == CHOOSE u \in Users : stringify(u) = text

NoStorage == [authToken |-> Null, userRole |-> Null, userData |-> Null]
IdleTask == [op |-> "idle", pc |-> "idle", user |-> Null, token |-> Null,
             role |-> Null]

TaskIds == 1..MaxTasks
Free(t) == tasks[t].op = "idle"

authUnchanged == UNCHANGED nonAuthVars

\* request interceptor: the request leaves with the stored token attached
request(t, op, u) ==
  tasks' = [tasks EXCEPT ![t] =
              [op |-> op, pc |-> "response", user |-> u,
               token |-> storage.authToken, role |-> Null]]

\* checkAuthStatus, run once by the effect of the first render
checkAuthStatus(t) ==
  /\ tasks[t].op = "checkAuthStatus"
  /\ \/ /\ tasks[t].pc = "getItem_authToken"
        /\ tasks' = [tasks EXCEPT ![t].token = storage.authToken,
                                  ![t].pc = "getItem_userRole"]
        /\ UNCHANGED <<user, userRole, token, authIsLoading>>
     \/ /\ tasks[t].pc = "getItem_userRole"
        /\ tasks' = [tasks EXCEPT ![t].role = storage.userRole,
                                  ![t].pc = "getItem_userData"]
        /\ UNCHANGED <<user, userRole, token, authIsLoading>>
     \/ /\ tasks[t].pc = "getItem_userData"
        /\ IF tasks[t].token # Null /\ tasks[t].role # Null
              /\ storage.userData # Null
           THEN /\ token' = tasks[t].token
                /\ userRole' = tasks[t].role
                /\ user' = parse(storage.userData)
           ELSE UNCHANGED <<user, userRole, token>>
        /\ authIsLoading' = FALSE
        /\ tasks' = [tasks EXCEPT ![t] = IdleTask]
  /\ UNCHANGED <<storage, issued, unauthorized>>
  /\ authUnchanged

\* login(email, password) up to the await of authAPI.login; the login
\* screen is shown while no user is set (RootLayoutNav)
login(t, u) ==
  /\ Free(t)
  /\ u \in Accounts
  /\ user = Null
  /\ request(t, "login", u)
  /\ UNCHANGED <<storage, user, userRole, token, authIsLoading, issued,
                 unauthorized>>
  /\ authUnchanged

\* register(userData) up to the await of authAPI.register
register(t, u) ==
  /\ Free(t)
  /\ u \in Accounts
  /\ user = Null
  /\ request(t, "register", u)
  /\ UNCHANGED <<storage, user, userRole, token, authIsLoading, issued,
                 unauthorized>>
  /\ authUnchanged

\* any other gateway call of a screen
gatewayCall(t) ==
  /\ Free(t)
  /\ request(t, "call", Null)
  /\ UNCHANGED <<storage, user, userRole, token, authIsLoading, issued,
                 unauthorized>>
  /\ authUnchanged

\* response interceptor, success branch; login and register go on to store
\* the token of the response
responseOk(t) ==
  /\ tasks[t].pc = "response"
  /\ IF tasks[t].op \in {"login", "register"}
     THEN /\ issued < MaxLogins
          /\ issued' = issued + 1
          /\ tasks' = [tasks EXCEPT ![t].token = Tokens[issued + 1],
                                    ![t].pc = "setItem_authToken"]
     ELSE /\ tasks' = [tasks EXCEPT ![t] = IdleTask]
          /\ UNCHANGED issued
  /\ UNCHANGED <<storage, user, userRole, token, authIsLoading, unauthorized>>
  /\ authUnchanged

\* response interceptor, error branch with a status other than 401: the
\* error is re-raised and the caller's catch returns
responseError(t) ==
  /\ tasks[t].pc = "response"
  /\ tasks' = [tasks EXCEPT ![t] = IdleTask]
  /\ UNCHANGED <<storage, user, userRole, token, authIsLoading, issued,
                 unauthorized>>
  /\ authUnchanged

\* response interceptor, error branch with status 401
responseUnauthorized(t) ==
  /\ \/ /\ tasks[t].pc = "response"
        /\ unauthorized < MaxUnauthorized
        /\ unauthorized' = unauthorized + 1
        /\ tasks' = [tasks EXCEPT ![t].pc = "401_removeItem_authToken"]
        /\ UNCHANGED storage
     \/ /\ tasks[t].pc = "401_removeItem_authToken"
        /\ storage' = [storage EXCEPT !.authToken = Null]
        /\ tasks' = [tasks EXCEPT ![t].pc = "401_removeItem_userRole"]
        /\ UNCHANGED unauthorized
     \/ /\ tasks[t].pc = "401_removeItem_userRole"
        /\ storage' = [storage EXCEPT !.userRole = Null]
        /\ tasks' = [tasks EXCEPT ![t] = IdleTask]
        /\ UNCHANGED unauthorized
  /\ UNCHANGED <<user, userRole, token, authIsLoading, issued>>
  /\ authUnchanged

\* login and register after the await of the response: three stores, then
\* the hook state
storeSession(t) ==
  /\ tasks[t].op \in {"login", "register"}
  /\ \/ /\ tasks[t].pc = "setItem_authToken"
        /\ storage' = [storage EXCEPT !.authToken = tasks[t].token]
        /\ tasks' = [tasks EXCEPT ![t].pc = "setItem_userRole"]
        /\ UNCHANGED <<user, userRole, token>>
     \/ /\ tasks[t].pc = "setItem_userRole"
        /\ storage' = [storage EXCEPT !.userRole = RoleOf(tasks[t].user)]
        /\ tasks' = [tasks EXCEPT ![t].pc = "setItem_userData"]
        /\ UNCHANGED <<user, userRole, token>>
     \/ /\ tasks[t].pc = "setItem_userData"
        /\ storage' = [storage EXCEPT !.userData = stringify(tasks[t].user)]
        /\ token' = tasks[t].token
        /\ userRole' = RoleOf(tasks[t].user)
        /\ user' = tasks[t].user
        /\ tasks' = [tasks EXCEPT ![t] = IdleTask]
  /\ UNCHANGED <<authIsLoading, issued, unauthorized>>
  /\ authUnchanged

\* logout(): three removals, then the hook state; the screens that offer
\* it are shown while a user is set
logout(t) ==
  /\ \/ /\ Free(t)
        /\ user # Null
        /\ tasks' = [tasks EXCEPT ![t] =
                       [IdleTask EXCEPT !.op = "logout",
                                        !.pc = "removeItem_authToken"]]
        /\ UNCHANGED <<storage, user, userRole, token>>
     \/ /\ tasks[t].pc = "removeItem_authToken"
        /\ storage' = [storage EXCEPT !.authToken = Null]
        /\ tasks' = [tasks EXCEPT ![t].pc = "removeItem_userRole"]
        /\ UNCHANGED <<user, userRole, token>>
     \/ /\ tasks[t].pc = "removeItem_userRole"
        /\ storage' = [storage EXCEPT !.userRole = Null]
        /\ tasks' = [tasks EXCEPT ![t].pc = "removeItem_userData"]
        /\ UNCHANGED <<user, userRole, token>>
     \/ /\ tasks[t].pc = "removeItem_userData"
        /\ storage' = [storage EXCEPT !.userData = Null]
        /\ token' = Null
        /\ userRole' = Null
        /\ user' = Null
        /\ tasks' = [tasks EXCEPT ![t] = IdleTask]
  /\ UNCHANGED <<authIsLoading, issued, unauthorized>>
  /\ authUnchanged

\* updateUser(userData): one store, then the hook state; the screens that
\* call it are shown while a user is set
updateUser(t, u) ==
  /\ u \in Users
  /\ \/ /\ Free(t)
        /\ user # Null
        /\ tasks' = [tasks EXCEPT ![t] =
                       [IdleTask EXCEPT !.op = "updateUser",
                                        !.pc = "setItem_userData",
                                        !.user = u]]
        /\ UNCHANGED <<storage, user>>
     \/ /\ tasks[t].op = "updateUser"
        /\ tasks[t].pc = "setItem_userData"
        /\ u = tasks[t].user
        /\ storage' = [storage EXCEPT !.userData = stringify(u)]
        /\ user' = u
        /\ tasks' = [tasks EXCEPT ![t] = IdleTask]
  /\ UNCHANGED <<userRole, token, authIsLoading, issued, unauthorized>>
  /\ authUnchanged

\* ------------------------------------------------------------------------
\* Forms: AddExperienceModal, AddEducationModal, AddSkillModal,
\* CreateJobScreen, EditJobScreen
\* ------------------------------------------------------------------------
Forms ==
  {"AddExperienceModal", "AddEducationModal", "AddSkillModal",
   "CreateJobScreen", "EditJobScreen"}
ModalForms == {"AddExperienceModal", "AddEducationModal", "AddSkillModal"}
DatedForms == {"AddExperienceModal", "AddEducationModal"}
JobForms == {"CreateJobScreen", "EditJobScreen"}

\* new Date(): the date pickers offer no later day (maximumDate)
Today == MaxDate
\* endDate: null
NoDate == 0
\* what the user types into a text field
Texts == {"", " ", "x"}
\* what the numeric keyboard lets the user type into a salary field
SalaryTexts == {"", "50", "100", "."}
\* response.data.error of a failed save: absent or empty, or a text
ServerMessages == {"", "Duplicate entry"}
NoAlert == "none"

\* String.prototype.trim
trim(s) == CASE s = " " -> "" [] s = " x " -> "x" [] OTHER -> s

\* parseFloat: NaN when the text does not start with a number
parseFloat(s) ==
  CASE s = "50" -> [nan |-> FALSE, val |-> 50]
    [] s = "100" -> [nan |-> FALSE, val |-> 100]
    [] OTHER -> [nan |-> TRUE, val |-> 0]

\* a >= b on numbers: false when either is NaN
GreaterOrEqual(a, b) == ~a.nan /\ ~b.nan /\ a.val >= b.val

\* the useState initial value of formData, which resetForm restores; the
\* optional fields (description, grade, proficiency, employmentType,
\* experienceLevel, isRemote, isActive) are left out: no validation reads
\* them
BlankForm(kind) ==
  CASE kind = "AddExperienceModal" ->
         [jobTitle |-> "", company |-> "", location |-> "",
          startDate |-> Today, endDate |-> NoDate, isCurrent |-> FALSE]
    [] kind = "AddEducationModal" ->
         [institution |-> "", degree |-> "", fieldOfStudy |-> "",
          startDate |-> Today, endDate |-> NoDate,
          currentlyStudying |-> FALSE]
    [] kind = "AddSkillModal" -> [skillName |-> "", yearsOfExp |-> 1]
    [] OTHER ->
         [title |-> "", description |-> "", requirements |-> "",
          responsibilities |-> "", location |-> "", salaryMin |-> "",
          salaryMax |-> "", skills |-> {}]

\* the text inputs of a form
TextFields(kind) ==
  CASE kind = "AddExperienceModal" -> {"jobTitle", "company", "location"}
    [] kind = "AddEducationModal" ->
         {"institution", "degree", "fieldOfStudy"}
    [] kind = "AddSkillModal" -> {"skillName"}
    [] OTHER ->
         {"title", "description", "requirements", "responsibilities",
          "location"}

\* the switch of a dated form
CurrentField(kind) ==
  IF kind = "AddExperienceModal" THEN "isCurrent" ELSE "currentlyStudying"

\* validateForm of AddExperienceModal and of AddEducationModal: no error
AddExperienceModal_validateForm(f) ==
  /\ trim(f.jobTitle) # ""
  /\ trim(f.company) # ""
  /\ trim(f.location) # ""
  /\ ~(~f.isCurrent /\ f.endDate = NoDate)
  /\ ~(f.endDate # NoDate /\ f.endDate < f.startDate)

AddEducationModal_validateForm(f) ==
  /\ trim(f.institution) # ""
  /\ trim(f.degree) # ""
  /\ trim(f.fieldOfStudy) # ""
  /\ ~(~f.currentlyStudying /\ f.endDate = NoDate)
  /\ ~(f.endDate # NoDate /\ f.endDate < f.startDate)

AddSkillModal_validateForm(f) ==
  /\ trim(f.skillName) # ""
  /\ ~(f.yearsOfExp < 0 \/ f.yearsOfExp > 50)

\* validateForm of CreateJobScreen and of EditJobScreen: the first error, or
\* NoAlert for null
CreateJobScreen_validateForm(f) ==
  IF trim(f.title) = "" THEN "Job title is required"
  ELSE IF trim(f.description) = "" THEN "Job description is required"
  ELSE IF trim(f.requirements) = "" THEN "Requirements are required"
  ELSE IF trim(f.responsibilities) = ""
    THEN "Responsibilities are required"
  ELSE IF trim(f.location) = "" THEN "Location is required"
  ELSE IF /\ f.salaryMin # ""
          /\ f.salaryMax # ""
          /\ GreaterOrEqual(parseFloat(f.salaryMin), parseFloat(f.salaryMax))
    THEN "Maximum salary must be greater than minimum salary"
  ELSE IF f.skills = {} THEN "Please add at least one required skill"
  ELSE NoAlert

validateForm(kind, f) ==
  CASE kind = "AddExperienceModal" -> AddExperienceModal_validateForm(f)
    [] kind = "AddEducationModal" -> AddEducationModal_validateForm(f)
    [] kind = "AddSkillModal" -> AddSkillModal_validateForm(f)
    [] OTHER -> CreateJobScreen_validateForm(f) = NoAlert

\* the second argument of Alert.alert('Error', ...) when the save failed
\* without a server message
Fallback(kind) ==
  CASE kind = "AddExperienceModal" -> "Failed to add experience"
    [] kind = "AddEducationModal" -> "Failed to add education"
    [] kind = "AddSkillModal" -> "Failed to add skill"
    [] kind = "CreateJobScreen" -> "Failed to post job. Please try again."
    [] OTHER -> "Failed to update job. Please try again."

SuccessMessage(kind) ==
  IF kind = "CreateJobScreen" THEN "Job posted successfully!"
  ELSE "Job updated successfully!"

\* the form is on screen, its inputs are editable and its buttons enabled,
\* and no alert of a job form covers it
Editable ==
  /\ formVisible
  /\ ~formLoading
  /\ formAlert # SuccessMessage(formKind)

formUnchanged == UNCHANGED nonFormVars

\* EditJobScreen.loadJob, answered with the job
loadJobResolved ==
  /\ formKind = "EditJobScreen"
  /\ ~formVisible
  /\ formAlert = NoAlert
  /\ \E title \in {" ", "x"}, salaryMin \in {"", "50"}, skills \in {{}, {"ts"}} :
       formData' = [title |-> title, description |-> "x",
                    requirements |-> "x", responsibilities |-> "x",
                    location |-> "x", salaryMin |-> salaryMin,
                    salaryMax |-> "", skills |-> skills]
  /\ formVisible' = TRUE
  /\ UNCHANGED <<formKind, formLoading, formCall, formAlert>>
  /\ formUnchanged

\* EditJobScreen.loadJob, failed: alert and router.back
loadJobRejected ==
  /\ formKind = "EditJobScreen"
  /\ ~formVisible
  /\ formAlert = NoAlert
  /\ formAlert' = "Failed to load job details"
  /\ UNCHANGED <<formKind, formData, formLoading, formVisible, formCall>>
  /\ formUnchanged

\* the parent shows the modal again
openForm ==
  /\ formKind \in ModalForms
  /\ ~formVisible
  /\ formVisible' = TRUE
  /\ UNCHANGED <<formKind, formData, formLoading, formCall, formAlert>>
  /\ formUnchanged

\* onChangeText of a text input
onChangeText(field, text) ==
  /\ Editable
  /\ field \in TextFields(formKind)
  /\ formData' = [formData EXCEPT ![field] = text]
  /\ UNCHANGED <<formKind, formLoading, formVisible, formCall, formAlert>>
  /\ formUnchanged

\* onChange of the start date picker
setStartDate(selectedDate) ==
  /\ Editable
  /\ formKind \in DatedForms
  /\ selectedDate \in 1..Today
  /\ formData' = [formData EXCEPT !.startDate = selectedDate]
  /\ UNCHANGED <<formKind, formLoading, formVisible, formCall, formAlert>>
  /\ formUnchanged

\* onChange of the end date picker, which is shown while the switch is off
\* and offers the days from startDate to today
setEndDate(selectedDate) ==
  /\ Editable
  /\ formKind \in DatedForms
  /\ ~formData[CurrentField(formKind)]
  /\ selectedDate \in formData.startDate..Today
  /\ formData' = [formData EXCEPT !.endDate = selectedDate]
  /\ UNCHANGED <<formKind, formLoading, formVisible, formCall, formAlert>>
  /\ formUnchanged

\* onValueChange of the switch
onValueChange(value) ==
  /\ Editable
  /\ formKind \in DatedForms
  /\ formData' =
       [formData EXCEPT
          ![CurrentField(formKind)] = value,
          !.endDate = IF value THEN NoDate
                      ELSE IF formData.endDate # NoDate
                        THEN formData.endDate
                      ELSE Today]
  /\ UNCHANGED <<formKind, formLoading, formVisible, formCall, formAlert>>
  /\ formUnchanged

\* onChangeText of the years input of AddSkillModal, with the value
\* parseInt(text) || 0
setYearsOfExp(years) ==
  /\ Editable
  /\ formKind = "AddSkillModal"
  /\ formData' = [formData EXCEPT !.yearsOfExp = years]
  /\ UNCHANGED <<formKind, formLoading, formVisible, formCall, formAlert>>
  /\ formUnchanged

\* updateFormData('salaryMin' | 'salaryMax', value)
updateFormData(key, value) ==
  /\ Editable
  /\ formKind \in JobForms
  /\ key \in {"salaryMin", "salaryMax"}
  /\ formData' = [formData EXCEPT ![key] = value]
  /\ UNCHANGED <<formKind, formLoading, formVisible, formCall, formAlert>>
  /\ formUnchanged

addSkill(skillInput) ==
  /\ Editable
  /\ formKind \in JobForms
  /\ trim(skillInput) # ""
  /\ trim(skillInput) \notin formData.skills
  /\ formData' =
       [formData EXCEPT !.skills = formData.skills \cup {trim(skillInput)}]
  /\ UNCHANGED <<formKind, formLoading, formVisible, formCall, formAlert>>
  /\ formUnchanged

removeSkill(skill) ==
  /\ Editable
  /\ formKind \in JobForms
  /\ skill \in formData.skills
  /\ formData' = [formData EXCEPT !.skills = formData.skills \ {skill}]
  /\ UNCHANGED <<formKind, formLoading, formVisible, formCall, formAlert>>
  /\ formUnchanged

\* the data handed to onSave / createJob / updateJob
SaveData(kind, f) ==
  IF kind = "AddSkillModal" THEN [f EXCEPT !.skillName = trim(f.skillName)]
  ELSE IF kind \in JobForms
    THEN [f EXCEPT !.title = trim(f.title),
                   !.description = trim(f.description),
                   !.requirements = trim(f.requirements),
                   !.responsibilities = trim(f.responsibilities),
                   !.location = trim(f.location)]
  ELSE f

\* handleSave of a modal, up to the await: the errors shown under the fields
\* are not part of the state
Modal_handleSave ==
  /\ Editable
  /\ formKind \in ModalForms
  /\ formKind = "AddSkillModal" => trim(formData.skillName) # ""
  /\ IF ~validateForm(formKind, formData)
       THEN UNCHANGED formVars
       ELSE /\ formLoading' = TRUE
            /\ formCall' = <<SaveData(formKind, formData)>>
            /\ UNCHANGED <<formKind, formData, formVisible, formAlert>>
  /\ formUnchanged

\* CreateJobScreen.handleSubmit and EditJobScreen.handleSave, up to the await
handleSubmit ==
  /\ Editable
  /\ formKind \in JobForms
  /\ IF CreateJobScreen_validateForm(formData) # NoAlert
       THEN /\ formAlert' = CreateJobScreen_validateForm(formData)
            /\ UNCHANGED <<formKind, formData, formLoading, formVisible,
                           formCall>>
       ELSE /\ formLoading' = TRUE
            /\ formCall' = <<SaveData(formKind, formData)>>
            /\ UNCHANGED <<formKind, formData, formVisible, formAlert>>
  /\ formUnchanged

\* the save succeeded: a modal runs resetForm and onClose, a job form shows
\* the Success alert; finally clears the flag
saveResolved ==
  /\ formCall # <<>>
  /\ formCall' = <<>>
  /\ formLoading' = FALSE
  /\ IF formKind \in ModalForms
       THEN /\ formData' = BlankForm(formKind)
            /\ formVisible' = FALSE
            /\ UNCHANGED formAlert
       ELSE /\ formAlert' = SuccessMessage(formKind)
            /\ UNCHANGED <<formData, formVisible>>
  /\ UNCHANGED formKind
  /\ formUnchanged

\* the variant of saveRejected that runs resetForm and onClose as well
saveRejectedResets(message) ==
  /\ formCall # <<>>
  /\ formCall' = <<>>
  /\ formLoading' = FALSE
  /\ formAlert' = IF message # "" THEN message ELSE Fallback(formKind)
  /\ formData' = BlankForm(formKind)
  /\ formVisible' = FALSE
  /\ UNCHANGED formKind
  /\ formUnchanged

\* the save failed: catch raises the alert, finally clears the flag
saveRejected(message) ==
  /\ formCall # <<>>
  /\ formCall' = <<>>
  /\ formLoading' = FALSE
  /\ formAlert' = IF message # "" THEN message ELSE Fallback(formKind)
  /\ UNCHANGED <<formKind, formData, formVisible>>
  /\ formUnchanged

\* OK of the Success alert: router.back
pressOK ==
  /\ formVisible
  /\ formAlert = SuccessMessage(formKind)
  /\ formKind \in JobForms
  /\ formVisible' = FALSE
  /\ UNCHANGED <<formKind, formData, formLoading, formCall, formAlert>>
  /\ formUnchanged

\* handleCancel of a modal: resetForm and onClose
handleCancel ==
  /\ Editable
  /\ formKind \in ModalForms
  /\ formData' = BlankForm(formKind)
  /\ formVisible' = FALSE
  /\ UNCHANGED <<formKind, formLoading, formCall, formAlert>>
  /\ formUnchanged

\* ------------------------------------------------------------------------
\* Specification of the list controller
\* ------------------------------------------------------------------------
ListInit ==
  /\ jobs = <<>>
  /\ isLoading = TRUE
  /\ isRefreshing = FALSE
  /\ isLoadingMore = FALSE
  /\ searchQuery = ""
  /\ showFilters = FALSE
  /\ filters = DefaultFilters
  /\ pagination = [total |-> 0, page |-> 1, totalPages |-> 1]
  /\ view = Snapshot
  /\ filtersChanged = TRUE
  /\ inflight = <<>>
  /\ serverJobs = [i \in 1..NumJobs |-> NumJobs + 1 - i]
  /\ alerts = 0
  /\ events = 0

\* the session store at rest, nobody signed in
AuthAtRest ==
  /\ storage = NoStorage
  /\ user = Null
  /\ userRole = Null
  /\ token = Null
  /\ authIsLoading = FALSE
  /\ tasks = [t \in TaskIds |-> IdleTask]
  /\ issued = 0
  /\ unauthorized = 0

\* nothing saved, the details screen not opened
SaveAtRest ==
  /\ serverSaved = {}
  /\ saveCalls = <<>>
  /\ job = NoJob
  /\ isApplying = FALSE
  /\ showApplyModal = FALSE
  /\ routeId = DetailsId
  /\ detailsLoading = TRUE

\* the loading view is on screen: no modal yet
ModalAtRest == modalFilters = DefaultFilters

\* no item screen mounted
ItemsAtRest ==
  /\ screen = "none"
  /\ items = <<>>
  /\ itemsLoading = FALSE
  /\ refreshing = FALSE
  /\ dialog = NoDialog
  /\ pending = <<>>
  /\ server = <<>>
  /\ errorAlerts = 0
  /\ taps = 0

\* no form mounted
FormsAtRest ==
  /\ formKind = "none"
  /\ formData = BlankForm("none")
  /\ formLoading = FALSE
  /\ formVisible = FALSE
  /\ formCall = <<>>
  /\ formAlert = NoAlert

Init ==
  ListInit /\ AuthAtRest /\ SaveAtRest /\ ModalAtRest /\ ItemsAtRest
    /\ FormsAtRest

Next ==
  \/ Render
  \/ \E text \in SearchTerms : setSearchQuery(text)
  \/ handleSearch
  \/ handleRefresh
  \/ handleLoadMore
  \/ handleClearFilters
  \/ \E field \in ChipFields : removeFilterChip(field)
  \/ \E b \in BOOLEAN : setShowFilters(b)
  \/ \E newFilters \in FilterInputs : handleApplyFilters(newFilters)
  \/ \E i \in 1..Len(inflight) : loadJobsResolved(i)
  \/ \E i \in 1..Len(inflight) : loadJobsRejected(i)
  \/ ServerPost

Spec == Init /\ [][Next]_vars

\* ------------------------------------------------------------------------
\* Specification of the session store
\* ------------------------------------------------------------------------
\* the app starts with the storage a previous run left
AuthInit ==
  /\ storage \in {NoStorage,
                  [authToken |-> "T0", userRole |-> RoleOf("u1"),
                   userData |-> stringify("u1")]}
  /\ user = Null
  /\ userRole = Null
  /\ token = Null
  /\ authIsLoading = TRUE
  /\ tasks = [t \in TaskIds |->
               IF t = 1
               THEN [IdleTask EXCEPT !.op = "checkAuthStatus",
                                     !.pc = "getItem_authToken"]
               ELSE IdleTask]
  /\ issued = 0
  /\ unauthorized = 0

InitAuth ==
  AuthInit /\ ListInit /\ SaveAtRest /\ ModalAtRest /\ ItemsAtRest
    /\ FormsAtRest

NextAuth ==
  \/ \E t \in TaskIds : checkAuthStatus(t)
  \/ \E t \in TaskIds, u \in Accounts : login(t, u)
  \/ \E t \in TaskIds, u \in Accounts : register(t, u)
  \/ \E t \in TaskIds : gatewayCall(t)
  \/ \E t \in TaskIds : responseOk(t)
  \/ \E t \in TaskIds : responseError(t)
  \/ \E t \in TaskIds : responseUnauthorized(t)
  \/ \E t \in TaskIds : storeSession(t)
  \/ \E t \in TaskIds : logout(t)
  \/ \E t \in TaskIds, u \in Users : updateUser(t, u)

SpecAuth == InitAuth /\ [][NextAuth]_vars

\* ------------------------------------------------------------------------
\* Specification of the saved-job toggle
\* ------------------------------------------------------------------------
\* the job seeker may have saved the newest job in an earlier session
SaveInit ==
  /\ serverSaved \in {{}, {NumJobs}}
  /\ saveCalls = <<>>
  /\ job = NoJob
  /\ isApplying = FALSE
  /\ showApplyModal = FALSE
  /\ routeId = DetailsId
  /\ detailsLoading = TRUE

InitSave ==
  ListInit /\ AuthAtRest /\ SaveInit /\ ModalAtRest /\ ItemsAtRest
    /\ FormsAtRest

NextSave ==
  \/ Render
  \/ \E i \in 1..Len(inflight) : loadJobsResolved(i)
  \/ \E jobId \in 1..NumJobs : handleSaveJob(jobId)
  \/ \E i \in 1..Len(saveCalls) : handleSaveJobResolved(i)
  \/ \E i \in 1..Len(saveCalls) : handleSaveJobRejected(i)
  \/ loadJobDetailsResolved
  \/ JobDetailsScreen_handleSaveJob
  \/ \E i \in 1..Len(saveCalls) : JobDetailsScreen_handleSaveJobResolved(i)
  \/ \E i \in 1..Len(saveCalls) : JobDetailsScreen_handleSaveJobRejected(i)

SpecSave == InitSave /\ [][NextSave]_vars

\* ------------------------------------------------------------------------
\* Specification of the job-details screen
\* ------------------------------------------------------------------------
\* the screen has mounted, with or without an id route parameter; with an
\* id the effect has called loadJobDetails
DetailsInit ==
  /\ serverSaved \in {{}, {NumJobs}}
  /\ saveCalls = <<>>
  /\ job = NoJob
  /\ isApplying = FALSE
  /\ showApplyModal = FALSE
  /\ routeId \in {DetailsId, DetailsId - 1, NoId}
  /\ detailsLoading = TRUE

InitDetails ==
  ListInit /\ AuthAtRest /\ DetailsInit /\ ModalAtRest /\ ItemsAtRest
    /\ FormsAtRest

NextDetails ==
  \/ loadJobDetailsResolved
  \/ loadJobDetailsRejected
  \/ JobDetailsScreen_handleSaveJob
  \/ \E i \in 1..Len(saveCalls) : JobDetailsScreen_handleSaveJobResolved(i)
  \/ \E i \in 1..Len(saveCalls) : JobDetailsScreen_handleSaveJobRejected(i)
  \/ \E b \in BOOLEAN : setShowApplyModal(b)
  \/ handleApply
  \/ \E i \in 1..Len(saveCalls) : handleApplyResolved(i)
  \/ \E i \in 1..Len(saveCalls) : handleApplyRejected(i)

SpecDetails == InitDetails /\ [][NextDetails]_vars

\* every request the screen has issued is answered in the end
SpecDetailsLive ==
  /\ SpecDetails
  /\ WF_vars(loadJobDetailsResolved \/ loadJobDetailsRejected)
  /\ WF_vars(\E i \in 1..Len(saveCalls) :
               \/ JobDetailsScreen_handleSaveJobResolved(i)
               \/ JobDetailsScreen_handleSaveJobRejected(i)
               \/ handleApplyResolved(i)
               \/ handleApplyRejected(i))

\* ------------------------------------------------------------------------
\* Specification of the filter modal
\* ------------------------------------------------------------------------
\* the list is on screen: the first page of the unfiltered list, or the first
\* page of the results of a submitted search
FiltersInit ==
  /\ serverJobs = [i \in 1..NumJobs |-> NumJobs + 1 - i]
  /\ \E t \in {"", "dev"} :
       /\ searchQuery = t
       /\ filters = [DefaultFilters EXCEPT
                       !.search = IF t = "" THEN Undefined ELSE t]
  /\ jobs = getAllJobs(serverJobs, filters).jobs
  /\ pagination = getAllJobs(serverJobs, filters).pagination
  /\ isLoading = FALSE
  /\ isRefreshing = FALSE
  /\ isLoadingMore = FALSE
  /\ showFilters = FALSE
  /\ view = Snapshot
  /\ filtersChanged = FALSE
  /\ inflight = <<>>
  /\ alerts = 0
  /\ events = 0
  /\ modalFilters = filters

InitFilters == SaveAtRest /\ AuthAtRest /\ ItemsAtRest /\ FiltersInit
    /\ FormsAtRest

NextFilters ==
  \/ Render
  \/ \E text \in SearchTerms : setSearchQuery(text)
  \/ handleSearch
  \/ handleRefresh
  \/ handleLoadMore
  \/ handleClearFilters
  \/ \E field \in ChipFields : removeFilterChip(field)
  \/ \E b \in BOOLEAN : setShowFilters(b)
  \/ \E text \in Locations \cup {Undefined} : JobFiltersModal_setLocation(text)
  \/ \E type \in JobTypes : JobFiltersModal_toggleJobType(type)
  \/ JobFiltersModal_handleReset
  \/ JobFiltersModal_handleApply
  \/ \E newFilters \in QueryInputs : handleApplyFilters(newFilters)
  \/ \E i \in 1..Len(inflight) : loadJobsResolved(i)
  \/ \E i \in 1..Len(inflight) : loadJobsRejected(i)

SpecFilters == InitFilters /\ [][NextFilters]_vars

\* ------------------------------------------------------------------------
\* Specification of the filter modal applied without editing
\* ------------------------------------------------------------------------
\* the list is on screen, loaded for a query that earlier searches and applies
\* have set; the search box holds a text, submitted or not
AppliedInit ==
  /\ serverJobs = [i \in 1..NumJobs |-> NumJobs + 1 - i]
  /\ searchQuery \in {"", "dev"}
  /\ filters \in {[DefaultFilters EXCEPT !.search = t, !.location = l] :
                     t \in {Undefined, "dev"},
                     l \in Locations \cup {Undefined}}
  /\ jobs = getAllJobs(serverJobs, filters).jobs
  /\ pagination = getAllJobs(serverJobs, filters).pagination
  /\ isLoading = FALSE
  /\ isRefreshing = FALSE
  /\ isLoadingMore = FALSE
  /\ showFilters = FALSE
  /\ view = Snapshot
  /\ filtersChanged = FALSE
  /\ inflight = <<>>
  /\ alerts = 0
  /\ events = 0
  /\ modalFilters = filters

InitUnedited == SaveAtRest /\ AuthAtRest /\ ItemsAtRest /\ AppliedInit
    /\ FormsAtRest

NextUnedited ==
  \/ Render
  \/ \E text \in SearchTerms : setSearchQuery(text)
  \/ handleSearch
  \/ handleRefresh
  \/ handleLoadMore
  \/ handleClearFilters
  \/ \E field \in ChipFields : removeFilterChip(field)
  \/ \E b \in BOOLEAN : setShowFilters(b)
  \/ JobFiltersModal_handleApply
  \/ \E i \in 1..Len(inflight) : loadJobsResolved(i)
  \/ \E i \in 1..Len(inflight) : loadJobsRejected(i)

SpecUnedited == InitUnedited /\ [][NextUnedited]_vars

\* ------------------------------------------------------------------------
\* Specification of the item screens
\* ------------------------------------------------------------------------
\* one of the screens has mounted: its effect has called the load function
ItemsInit ==
  /\ screen \in Screens
  /\ server = ServerItems(screen)
  /\ items = <<>>
  /\ itemsLoading = TRUE
  /\ refreshing = FALSE
  /\ dialog = NoDialog
  /\ pending = <<[api |-> LoadApi[screen], section |-> "none", id |-> 0,
                  arg |-> "none"]>>
  /\ errorAlerts = 0
  /\ taps = 0

InitItems ==
  ListInit /\ AuthAtRest /\ SaveAtRest /\ ModalAtRest /\ ItemsInit
    /\ FormsAtRest

NextItems ==
  \/ \E i \in 1..Len(pending) : loadResolved(i)
  \/ \E i \in 1..Len(pending) : loadRejected(i)
  \/ onRefresh
  \/ \E jobId \in 1..NumItems : toggleJobStatus(jobId)
  \/ \E i \in 1..Len(pending) : updateJobResolved(i)
  \/ \E i \in 1..Len(pending) : updateJobRejected(i)
  \/ \E jobId \in 1..NumItems : deleteJob(jobId)
  \/ \E applicationId \in 1..NumItems :
       handleWithdrawApplication(applicationId)
  \/ \E skillId \in 1..NumItems : handleRemoveSkill(skillId)
  \/ \E experienceId \in 1..NumItems : handleDeleteExperience(experienceId)
  \/ \E educationId \in 1..NumItems : handleDeleteEducation(educationId)
  \/ pressCancel
  \/ pressDestructive
  \/ \E i \in 1..Len(pending) : destructiveResolved(i)
  \/ \E i \in 1..Len(pending) : destructiveRejected(i)

SpecItems == InitItems /\ [][NextItems]_vars

\* ------------------------------------------------------------------------
\* Specification of the forms
\* ------------------------------------------------------------------------
\* a form has mounted: a modal is shown, CreateJobScreen is shown,
\* EditJobScreen shows its loading view until loadJob has ended
FormsInit ==
  /\ formKind \in Forms
  /\ formData = BlankForm(formKind)
  /\ formLoading = FALSE
  /\ formVisible = (formKind # "EditJobScreen")
  /\ formCall = <<>>
  /\ formAlert = NoAlert

InitForms ==
  ListInit /\ AuthAtRest /\ SaveAtRest /\ ModalAtRest /\ ItemsAtRest
    /\ FormsInit

NextForms ==
  \/ loadJobResolved
  \/ loadJobRejected
  \/ openForm
  \/ \E field \in TextFields(formKind), text \in Texts :
       onChangeText(field, text)
  \/ \E selectedDate \in 1..Today : setStartDate(selectedDate)
  \/ \E selectedDate \in 1..Today : setEndDate(selectedDate)
  \/ \E value \in BOOLEAN : onValueChange(value)
  \/ \E years \in {0 - 1, 0, 50, 51} : setYearsOfExp(years)
  \/ \E key \in {"salaryMin", "salaryMax"}, value \in SalaryTexts :
       updateFormData(key, value)
  \/ \E skillInput \in {" ", "ts"} : addSkill(skillInput)
  \/ \E skill \in {"ts"} : removeSkill(skill)
  \/ Modal_handleSave
  \/ handleSubmit
  \/ saveResolved
  \/ \E message \in ServerMessages : saveRejected(message)
  \/ pressOK
  \/ handleCancel

SpecForms == InitForms /\ [][NextForms]_vars

\* ------------------------------------------------------------------------
\* Properties of the list controller (checked under Spec)
\* ------------------------------------------------------------------------
\* no request and no effect for the current value of filters is outstanding
CurrentQueryAnswered ==
  /\ ~filtersChanged
  /\ \A k \in 1..Len(inflight) : inflight[k].filters # filters

\* C1: a response that belongs to a superseded query is discarded: when the
\* query was replaced by a search or filter change (page 1) that selects
\* other jobs while a request for the earlier query was pending, and the
\* response of that request arrives after the current query has been
\* answered, the items stay those of the current query.
C1_StaleResponseDiscarded ==
  [][\A i \in 1..Len(inflight) :
       (/\ loadJobsResolved(i)
        /\ ~inflight[i].isRefresh
        /\ filters.page = 1
        /\ Matching(serverJobs, inflight[i].filters)
             # Matching(serverJobs, filters)
        /\ CurrentQueryAnswered)
       => jobs' = jobs]_vars

\* C2: items never holds the same id twice, whatever pages the loadMore
\* responses carry.
C2_NoDuplicateIds ==
  \A i, j \in 1..Len(jobs) : i # j => jobs[i].id # jobs[j].id

\* C3: query.page is 1 right after applyFilters, a search submission and
\* the removal of a filter chip, whatever it was before, and it increases
\* only through loadMore.
C3_FilterResetsPage ==
  [][/\ (\/ handleSearch
         \/ \E newFilters \in FilterInputs : handleApplyFilters(newFilters)
         \/ \E field \in ChipFields : removeFilterChip(field))
        => filters'.page = 1
     /\ filters'.page > filters.page => handleLoadMore]_vars

\* C3 witness: a search, apply or chip removal has just acted on a screen
\* that showed a page beyond the first, and a loadMore has acted before.
C3_Witness ==
  /\ filtersChanged
  /\ view.filters.page > 1
  /\ filters.page = 1
  /\ filters # [view.filters EXCEPT !.page = 1]

\* C4: when the response of the request made by refresh is the last to
\* arrive and nothing failed, the items become exactly the first page of
\* the current query, whatever page the query was on when refresh was
\* issued.
C4_RefreshYieldsFirstPage ==
  [][\A i \in 1..Len(inflight) :
       (/\ loadJobsResolved(i)
        /\ inflight[i].isRefresh
        /\ Len(inflight) = 1
        /\ ~filtersChanged
        /\ alerts = 0
        /\ filters = [inflight[i].filters EXCEPT !.page = 1])
       => jobs' = getAllJobs(serverJobs, filters).jobs]_vars

\* C8: when the request of a loadMore fails while its query is still the
\* current one, query.page goes back to the page before the loadMore.
C8_LoadMoreFailureRollsBack ==
  [][\A i \in 1..Len(inflight) :
       (/\ loadJobsRejected(i)
        /\ ~inflight[i].isRefresh
        /\ inflight[i].filters.page > 1
        /\ inflight[i].filters = filters
        /\ ~filtersChanged)
       => filters'.page = filters.page - 1]_vars

\* a loadMore has acted and its request has not resolved yet, or is not
\* even dispatched yet
LoadMoreOutstanding ==
  \/ \E k \in 1..Len(inflight) :
       ~inflight[k].isRefresh /\ inflight[k].filters.page > 1
  \/ filtersChanged /\ filters.page > 1

\* C9: loadMore changes nothing while an earlier loadMore is outstanding or
\* when pagination.page >= pagination.totalPages.
C9_LoadMoreNoOp ==
  [][handleLoadMore =>
       /\ ~LoadMoreOutstanding
       /\ pagination.page < pagination.totalPages]_vars

\* C10: at most one of isLoading, isRefreshing, isLoadingMore is true.
C10_AtMostOneFlag ==
  /\ ~(isLoading /\ isRefreshing)
  /\ ~(isLoading /\ isLoadingMore)
  /\ ~(isRefreshing /\ isLoadingMore)

\* ------------------------------------------------------------------------
\* Properties of the session store (checked under SpecAuth)
\* ------------------------------------------------------------------------
\* the step that ends the 401 branch of the response interceptor of task t
UnauthorizedHandled(t) ==
  /\ tasks[t].pc = "401_removeItem_userRole"
  /\ responseUnauthorized(t)

InUnauthorizedBranch(t) ==
  tasks[t].pc \in {"401_removeItem_authToken", "401_removeItem_userRole"}

\* C5: once a 401 response has been handled authToken, userRole and
\* userData are all absent, and the clearing is not run a second time for a
\* 401 that arrives while it is running.
C5_UnauthorizedClearsOnce ==
  [][\A t \in TaskIds :
       /\ UnauthorizedHandled(t) => storage' = NoStorage
       /\ (tasks[t].pc = "response" /\ responseUnauthorized(t))
          => \A o \in TaskIds : ~InUnauthorizedBranch(o)]_vars

\* C6: authToken, userRole and userData are all present or all absent.
C6_SessionTriple ==
  \/ storage = NoStorage
  \/ /\ storage.authToken # Null
     /\ storage.userRole # Null
     /\ storage.userData # Null

\* C7: when logout() completes and when a 401 response has been handled,
\* the token, role and user of the session store are null.
C7_SessionCleared ==
  [][\A t \in TaskIds :
       (\/ UnauthorizedHandled(t)
        \/ tasks[t].pc = "removeItem_userData" /\ logout(t))
       => (token' = Null /\ userRole' = Null /\ user' = Null)]_vars

\* ------------------------------------------------------------------------
\* Failure of a refresh (checked under Spec)
\* ------------------------------------------------------------------------
\* C11: a refresh whose requests fail leaves the items as they were before
\* the call: handleRefresh, the effect it causes and the rejection of a
\* request change no item, and isRefreshing is false once a request was
\* rejected.
C11_RefreshPreservesOnFailure ==
  [][/\ (handleRefresh \/ Render) => jobs' = jobs
     /\ \A i \in 1..Len(inflight) :
          loadJobsRejected(i) => jobs' = jobs /\ ~isRefreshing']_vars

\* C11 witness: the only user event was a pull-to-refresh on a loaded list,
\* both its requests were rejected, and the list is still there.
C11_Witness ==
  /\ events = 1
  /\ alerts = 2
  /\ inflight = <<>>
  /\ ~filtersChanged
  /\ jobs # <<>>
  /\ ~isRefreshing

\* ------------------------------------------------------------------------
\* Properties of the saved-job toggle (checked under SpecSave)
\* ------------------------------------------------------------------------
\* C12: a toggle whose gateway call fails leaves every isSaved flag at its
\* value before the toggle: neither the handler up to the await nor the
\* catch block changes an item of the list or the job of the details
\* screen, and the catch block raises exactly one error alert.
C12_FailedToggleKeepsFlag ==
  [][/\ (\/ \E jobId \in 1..NumJobs : handleSaveJob(jobId)
         \/ JobDetailsScreen_handleSaveJob)
        => jobs' = jobs /\ job' = job /\ alerts' = alerts
     /\ \A i \in 1..Len(saveCalls) :
          (\/ handleSaveJobRejected(i)
           \/ JobDetailsScreen_handleSaveJobRejected(i))
          => jobs' = jobs /\ job' = job /\ alerts' = alerts + 1]_vars

\* C12 witness: the list is loaded, a toggle has failed and nothing else is
\* pending; every flag of the list is the one the backend holds.
C12_Witness ==
  /\ jobs # <<>>
  /\ events = 1
  /\ alerts = 1
  /\ saveCalls = <<>>
  /\ job = NoJob
  /\ \A k \in 1..Len(jobs) : jobs[k].isSaved = (jobs[k].id \in serverSaved)

\* C13: the toggle is optimistic: the handler flips the isSaved flag of the
\* job before it issues the gateway call, so the flip is there while the
\* call is unresolved.
C13_FlipBeforeCall ==
  [][/\ \A jobId \in 1..NumJobs :
          handleSaveJob(jobId) =>
            \E k \in 1..Len(jobs) :
              /\ jobs[k].id = jobId
              /\ jobs'[k].isSaved # jobs[k].isSaved
     /\ JobDetailsScreen_handleSaveJob => job'.isSaved # job.isSaved]_vars

\* ------------------------------------------------------------------------
\* The paginated fetch scenario (checked under Spec)
\* ------------------------------------------------------------------------
TotalPages == (NumJobs + DefaultLimit - 1) \div DefaultLimit

\* the first n jobs of the backend, as the list holds them
FirstJobs(n) == [k \in 1..Min(n, NumJobs) |-> JobRecord(serverJobs[k])]

\* the unfiltered query is at page k, its request is the only one pending,
\* the list holds the pages before k, and nothing was posted meanwhile
AwaitingPage(k) ==
  /\ Len(serverJobs) = NumJobs
  /\ filters = [DefaultFilters EXCEPT !.page = k]
  /\ ~filtersChanged
  /\ inflight = <<[filters |-> filters, isRefresh |-> FALSE]>>
  /\ k > 1 => /\ jobs = FirstJobs(DefaultLimit * (k - 1))
              /\ pagination.page = k - 1

\* every page of the unfiltered query is in the list and rendered
AllPagesLoaded ==
  /\ Len(serverJobs) = NumJobs
  /\ jobs = FirstJobs(NumJobs)
  /\ pagination.page = TotalPages
  /\ pagination.totalPages = TotalPages
  /\ inflight = <<>>
  /\ ~filtersChanged

\* C14: with NumJobs (25) jobs on the backend, the first page gives 10 items
\* and pagination {total: 25, page: 1, totalPages: 3}; each loadMore made
\* after the previous page arrived adds the next page (20, then 25 items,
\* no duplicates); with page 3 of 3 loaded, loadMore does nothing.
C14_PaginatedScenario ==
  [][/\ \A k \in 1..TotalPages :
          (AwaitingPage(k) /\ loadJobsResolved(1))
          => /\ jobs' = FirstJobs(DefaultLimit * k)
             /\ pagination' = [total |-> NumJobs, page |-> k,
                               totalPages |-> TotalPages]
     /\ AllPagesLoaded => ~ENABLED handleLoadMore]_vars

\* C14 witness: two loadMore calls were the only user events and the list
\* holds all the jobs of the backend.
C14_Witness ==
  /\ AllPagesLoaded
  /\ events = 2
  /\ alerts = 0
  /\ Len(jobs) = NumJobs
\* the search text a query asks for
SearchText(f) == IF f.search = Undefined THEN "" ELSE f.search

\* ------------------------------------------------------------------------
\* C15: applying filters merges the new query over the current one and forces
\* page 1: a field the filter modal cannot supply, the search text of an
\* earlier search submission, keeps its prior value, and so does limit (the
\* modal opened on the query the list was loaded with)
C15_ApplyFiltersMerges ==
  [][(JobFiltersModal_handleApply /\ ~filtersChanged) =>
       /\ filters'.page = 1
       /\ SearchText(filters') = SearchText(filters)
       /\ filters'.limit = filters.limit]_vars

C17_WithdrawnItemRemoved ==
  (screen = "MyApplications" /\ pending = <<>>) =>
    \A k \in 1..Len(items) : Holds(server, "applications", items[k].id)

\* ------------------------------------------------------------------------
\* C18: an item leaves the local collection only once the backend has deleted
\* it; asking, confirming and a failed delete call leave the collection as it
\* was, and the failure raises an Error alert
C18_RemoveItemPessimistic ==
  [][/\ (pressDestructive \/ pressCancel) => items' = items
     /\ \A i \in 1..Len(pending) :
          destructiveRejected(i) =>
            items' = items /\ errorAlerts' = errorAlerts + 1
     /\ \A i \in 1..Len(pending) : destructiveResolved(i) => items' = items
     /\ \A k \in 1..Len(items) :
          ~Holds(items', items[k].section, items[k].id) =>
            ~Holds(server', items[k].section, items[k].id)]_vars

\* a job was deleted: the delete call succeeded and the reload dropped the job
C18_Witness ==
  /\ screen = "MyJobs"
  /\ pending = <<>>
  /\ taps = 2
  /\ items = server
  /\ Len(items) = NumItems - 1

\* ------------------------------------------------------------------------
\* C19: the status of a job in the local list changes only to the status the
\* backend has stored; tapping the toggle, the pending update call and a
\* failed update call leave the list as it was
C19_StatusNeverSpeculative ==
  [][/\ (\E jobId \in 1..NumItems : toggleJobStatus(jobId)) => items' = items
     /\ \A i \in 1..Len(pending) :
          (updateJobRejected(i) \/ updateJobResolved(i)) => items' = items
     /\ screen = "MyJobs" =>
          \A k \in 1..Len(items) :
            (/\ Holds(items', "jobs", items[k].id)
             /\ ItemOf(items', "jobs", items[k].id).status # items[k].status)
            => ItemOf(items', "jobs", items[k].id)
                 = ItemOf(server', "jobs", items[k].id)]_vars

\* a status was toggled: the update call succeeded and the reload shows it
C19_Witness ==
  /\ screen = "MyJobs"
  /\ pending = <<>>
  /\ taps = 1
  /\ items = server
  /\ Len(items) = NumItems
  /\ items # ServerItems("MyJobs")

\* ------------------------------------------------------------------------
\* C20: a delete or withdraw call is dispatched only from the confirmation
\* dialog opened for that call and that item; Cancel dispatches nothing and
\* changes nothing but the dialog
C20_ConfirmBeforeDestructive ==
  [][/\ (/\ Len(pending') = Len(pending) + 1
         /\ pending'[Len(pending')].api \in DestructiveApis)
        => dialog = [api |-> pending'[Len(pending')].api,
                     section |-> pending'[Len(pending')].section,
                     id |-> pending'[Len(pending')].id]
     /\ pressCancel =>
          /\ pending' = pending
          /\ <<items, itemsLoading, refreshing, server, errorAlerts>>'
               = <<items, itemsLoading, refreshing, server, errorAlerts>>]_vars

\* a withdraw call is on its way after the dialog was confirmed
C20_Witness ==
  /\ dialog = NoDialog
  /\ taps = 2
  /\ \E j \in 1..Len(pending) : pending[j].api = "withdrawApplication"

\* ------------------------------------------------------------------------
\* C23: while a getAllJobs request of the screen is unanswered, at least one
\* of isLoading, isRefreshing, isLoadingMore is true
C23_LoadingWhileInFlight ==
  inflight # <<>> => (isLoading \/ isRefreshing \/ isLoadingMore)

\* ------------------------------------------------------------------------
\* C28: filters.page never exceeds max(1, pagination.totalPages), and the
\* request for a page n > 1 is dispatched only when page n - 1 is the page
\* last applied to the list
C28_NoPageSkipped ==
  [][/\ filters.page <= (IF pagination.totalPages > 1
                         THEN pagination.totalPages ELSE 1)
     /\ (Render /\ filters.page > 1) =>
          pagination.page = filters.page - 1]_vars

\* ------------------------------------------------------------------------
\* C29: a pull-to-refresh on a settled screen dispatches one request, for
\* page 1, and leaves no further request to be dispatched by the effect
C29_RefreshDispatchesOnce ==
  [][(handleRefresh /\ ~filtersChanged) =>
       /\ Len(inflight') = Len(inflight) + 1
       /\ inflight'[Len(inflight')].filters.page = 1
       /\ ~filtersChanged']_vars

\* ------------------------------------------------------------------------
\* C25: when the last of the save calls made for a job of the list succeeds,
\* none having failed, the isSaved flag of the job in the list is the saved
\* state the backend holds for it
C25_OverlappingTogglesConsistent ==
  [][\A i \in 1..Len(saveCalls) :
       (/\ handleSaveJobResolved(i)
        /\ job = NoJob
        /\ alerts = 0
        /\ \A j \in 1..Len(saveCalls') :
             saveCalls'[j].jobId # saveCalls[i].jobId)
       => \A k \in 1..Len(jobs') :
            jobs'[k].id = saveCalls[i].jobId =>
              jobs'[k].isSaved = (jobs'[k].id \in serverSaved')]_vars

\* ------------------------------------------------------------------------
\* C26: on the job-details screen the completion of an apply leaves
\* job.isSaved as it was and sets hasApplied, and the completion of a save
\* toggle leaves job.hasApplied as it was and sets isSaved to the toggled
\* value
C26_SaveAndApplyKeepFields ==
  [][\A i \in 1..Len(saveCalls) :
       /\ handleApplyResolved(i) =>
            job'.hasApplied /\ job'.isSaved = job.isSaved
       /\ JobDetailsScreen_handleSaveJobResolved(i) =>
            /\ job'.isSaved = (saveCalls[i].api = "saveJob")
            /\ job'.hasApplied = job.hasApplied]_vars

C27_Stale401KeepsNewSession ==
  [][\A t \in TaskIds :
       (/\ responseUnauthorized(t)
        /\ storage.authToken # Null
        /\ storage.userRole # Null
        /\ tasks[t].token # Null
        /\ tasks[t].token # storage.authToken)
       => /\ storage'.authToken = storage.authToken
          /\ storage'.userRole = storage.userRole]_vars

SalaryOutOfOrder(f) ==
  /\ f.salaryMin # ""
  /\ f.salaryMax # ""
  /\ ~(/\ ~parseFloat(f.salaryMin).nan
       /\ ~parseFloat(f.salaryMax).nan
       /\ parseFloat(f.salaryMax).val > parseFloat(f.salaryMin).val)

\* the rules a form has to meet before it is saved
MeetsRules(kind, f) ==
  /\ \A field \in TextFields(kind) : trim(f[field]) # ""
  /\ kind \in DatedForms =>
       /\ f[CurrentField(kind)] \/ f.endDate # NoDate
       /\ f.endDate # NoDate => f.endDate >= f.startDate
  /\ kind = "AddSkillModal" => f.yearsOfExp \in 0..50
  /\ kind \in JobForms => f.skills # {} /\ ~SalaryOutOfOrder(f)

\* C21: a save reaches the gateway only from a form that meets the rules
\* (required text fields not blank after trimming, an end date unless
\* current, the end date not before the start date, years within 0..50, at
\* least one skill on a job posting, and a maximum salary strictly greater
\* than the minimum when both are given), and no save is dispatched while
\* one is in flight
C21_SaveGated ==
  [][/\ (formCall = <<>> /\ formCall' # <<>>) =>
          MeetsRules(formKind, formData)
     /\ formCall # <<>> => formCall' \in {formCall, <<>>}]_vars

\* ------------------------------------------------------------------------
\* C22: a failed save leaves every field of the form as it was and the form
\* on screen, clears the saving flag and shows the server's message, or the
\* form's fallback text when there is none; the form is closed only by a
\* successful save or by the user's Cancel, and a save in flight changes the
\* fields only by succeeding
C22_FailureKeepsData ==
  [][/\ \A message \in ServerMessages :
          saveRejected(message) =>
            /\ formData' = formData
            /\ formVisible' /\ formVisible
            /\ ~formLoading'
            /\ formAlert' = IF message # "" THEN message
                            ELSE Fallback(formKind)
     /\ (formVisible /\ ~formVisible') =>
          saveResolved \/ pressOK \/ handleCancel
     /\ (formCall # <<>> /\ formData' # formData) => saveResolved]_vars

\* the save of a filled experience form has failed without a server message
C22_Witness ==
  /\ formKind = "AddExperienceModal"
  /\ formAlert = "Failed to add experience"
  /\ formVisible
  /\ ~formLoading
  /\ formCall = <<>>
  /\ formData.jobTitle = "x"
  /\ formData.isCurrent

====
